---- MODULE Spec2Model ----
(***************************************************************************)
(* The POST /chat pipeline of the two backend variants held in             *)
(* src/unnamed/part_000: the ES-module server (lines 1-308) and the        *)
(* CommonJS server (lines 310-568).  One behaviour of the model is the     *)
(* life of one request: the upload middleware, the route handler, the      *)
(* remote model call and the error-handling middleware.                    *)
(***************************************************************************)
EXTENDS Integers, Sequences, FiniteSets, TLC

(***************************************************************************)
(* Bounds of the model.                                                    *)
(***************************************************************************)
\* Longest request whose attachments are drawn freely; longer requests are
\* padded with identical PDF attachments up to and beyond the file limit.
MaxArb == 2

\* Milliseconds the clock advances while the two requests are in flight.
MaxClock == 1

\* Largest random suffix drawn for a file name (the program draws from 0..1e9).
MaxRandom == 1

\* Most files one request in flight stores.
MaxStored == 2

\* Most sendMessage calls of one client session that pass the guard.
MaxSends == 2

\* Most files attached to one message.
MaxAttached == 1

(***************************************************************************)
(* Program constants.                                                      *)
(***************************************************************************)
\* limits.files of the upload middleware
MaxFiles == 10
\* limits.fileSize of the upload middleware
FileSizeLimit == 10 * 1024 * 1024

Min(a, b) == IF a < b THEN a ELSE b

(***************************************************************************)
(* String helpers, computed as String.prototype.startsWith / includes do.  *)
(***************************************************************************)
StartsWith(s, p) == Len(s) >= Len(p) /\ SubSeq(s, 1, Len(p)) = p

Includes(s, n) == \E i \in 1..(Len(s) - Len(n) + 1) : SubSeq(s, i, i + Len(n) - 1) = n

(***************************************************************************)
(* The request: prompt field and file parts.                               *)
(***************************************************************************)
\* req.body.prompt: the field may be absent (undefined) or any string.
Prompts ==
  { [given |-> FALSE, text |-> ""],
    [given |-> TRUE,  text |-> ""],
    [given |-> TRUE,  text |-> "hi"] }

\* JavaScript truthiness of req.body.prompt: undefined and "" are falsy.
Truthy(p) == p.given /\ p.text # ""

DocxType == "application/vnd.openxmlformats-officedocument.wordprocessingml.document"

\* Declared media types of the attachments the model submits.
InputMimes ==
  { "image/png", "image/jpg", "text/plain", "application/pdf",
    "application/msword", "application/zip" }

\* A file part of the multipart body: declared media type and size in bytes.
Attachments ==
  { [mimetype |-> m, size |-> FileSizeLimit] : m \in InputMimes }
    \cup { [mimetype |-> "text/plain", size |-> FileSizeLimit + 1] }

PadAttachment == [mimetype |-> "application/pdf", size |-> FileSizeLimit]

Pad(n) == [i \in 1..n |-> PadAttachment]

ArbSeqs(n) == UNION { [1..k -> Attachments] : k \in 0..n }

\* The bodies submitted: every sequence of at most MaxArb attachments, and
\* requests of MaxFiles - 1 .. MaxFiles + 1 attachments made of at most one
\* free attachment followed by padding.
Uploads ==
  ArbSeqs(MaxArb)
    \cup { s \o Pad(n) : s \in ArbSeqs(1), n \in (MaxFiles - 1)..(MaxFiles + 1) }

\* file.originalname and the content of the stored file, by position.
OriginalName(i) == "file" \o ToString(i)
FileText(i) == "text of " \o OriginalName(i)
FileBytes(i) == "bytes of " \o OriginalName(i)

\* Buffer.toString("base64")
Base64(bytes) == "base64(" \o bytes \o ")"

(***************************************************************************)
(* The remote model: the responses it returns and the errors it throws.    *)
(***************************************************************************)
NoPart == [isText |-> FALSE, text |-> ""]
TextOf(s) == [isText |-> TRUE, text |-> s]

\* hasTextFn / textFn: the response has a text() method, and what it returns;
\* hasParts / parts: candidates[0].content.parts is an array, and its items
\* (isText: item.text is a string); raw: the response's own properties.
ModelResponses ==
  { [hasTextFn |-> TRUE,  textFn |-> "Hello", hasParts |-> FALSE, parts |-> <<>>, raw |-> ""],
    [hasTextFn |-> TRUE,  textFn |-> "T", hasParts |-> TRUE,
       parts |-> <<TextOf("P")>>, raw |-> ""],
    [hasTextFn |-> FALSE, textFn |-> "", hasParts |-> TRUE,
       parts |-> <<TextOf("Hel"), NoPart, TextOf("lo")>>, raw |-> ""],
    [hasTextFn |-> FALSE, textFn |-> "", hasParts |-> TRUE,
       parts |-> <<NoPart>>, raw |-> ""],
    [hasTextFn |-> FALSE, textFn |-> "", hasParts |-> FALSE,
       parts |-> <<>>, raw |-> "\"promptFeedback\":{}"] }

\* error.message of a failed model call.
ErrorMessages ==
  { "fetch failed",
    "blocked due to SAFETY",
    "API key not valid. SAFETY",
    "API_KEY_INVALID SAFETY",
    "RESOURCE_EXHAUSTED",
    "QUOTA_EXCEEDED",
    "UNAUTHENTICATED",
    "SAFETY QUOTA_EXCEEDED" }

NoResponse == [hasTextFn |-> FALSE, textFn |-> "", hasParts |-> FALSE, parts |-> <<>>, raw |-> ""]

VARIABLES
  variant,          \* "esm" | "cjs": which of the two servers runs
  apiKey,           \* a service credential is configured in the environment
  uploadDirExists,  \* the uploads directory exists when the request arrives
  prompt,           \* req.body.prompt
  uploaded,         \* the file parts of the multipart body, in upload order
  pc,               \* position of the request in the pipeline
  files,            \* req.files
  disk,             \* indices of the attachments whose stored file exists
  locked,           \* stored files whose removal fails
  unreadable,       \* stored files whose read fails
  idx,              \* attachments the handler's loop has gone through
  userParts,        \* the part sequence being assembled
  reads,            \* attachments for which a read was issued
  unlinkAttempts,   \* per attachment, removals attempted by the server
  pending,          \* removals started and not yet settled
  modelCalls,       \* calls of generateContent
  modelResult,      \* what the model call returned or threw
  responses         \* HTTP responses sent for the request

\* The uploads directory as the requests in flight share it.
VARIABLES
  now,              \* Date.now()
  uploadsDir,       \* the files of the uploads directory, by name
  reqPaths,         \* per request in flight, file.path of its stored files
  reqPc,            \* per request in flight, "upload" | "handler" | "done"
  reqReads          \* per request in flight, what it read at each of its paths

storageVars == << now, uploadsDir, reqPaths, reqPc, reqReads >>

requestVars ==
  << variant, apiKey, uploadDirExists, prompt, uploaded, pc, files, disk, locked,
     unreadable, idx, userParts, reads, unlinkAttempts, pending, modelCalls,
     modelResult, responses >>

\* The chat client, component ChatInterface.
VARIABLES
  messages,         \* the messages shown, oldest first
  inputText,        \* content of the textarea
  attachedFiles,    \* files attached to the message being written
  isLoading,        \* the loading flag
  sends             \* the sendMessage calls that passed the guard, in order

clientVars == << messages, inputText, attachedFiles, isLoading, sends >>

vars == << requestVars, storageVars, clientVars >>

\* What the pipeline of one request never writes: its inputs, and the
\* directory as the other requests see it.
inputs ==
  << variant, apiKey, uploadDirExists, prompt, uploaded, storageVars, clientVars >>

\* useState initial values of the component
ClientInit ==
  /\ messages = <<>>
  /\ inputText = ""
  /\ attachedFiles = <<>>
  /\ isLoading = FALSE
  /\ sends = <<>>

\* The two requests in flight.
Requests == {1, 2}

\* No request has stored anything yet.
StorageInit ==
  /\ now = 0
  /\ uploadsDir = {}
  /\ reqPaths = [r \in Requests |-> <<>>]
  /\ reqPc = [r \in Requests |-> "upload"]
  /\ reqReads = [r \in Requests |-> <<>>]

NoResult == [kind |-> "none", response |-> NoResponse, message |-> ""]

Init ==
  /\ variant \in {"esm", "cjs"}
  /\ apiKey \in BOOLEAN
  \* the CommonJS destination callback creates the directory on every upload
  /\ uploadDirExists \in (IF variant = "cjs" THEN {TRUE} ELSE BOOLEAN)
  /\ prompt \in Prompts
  /\ uploaded \in Uploads
  /\ pc = "multer"
  /\ files = <<>>
  /\ disk = {}
  /\ locked = {}
  /\ unreadable = {}
  /\ idx = 0
  /\ userParts = <<>>
  /\ reads = {}
  /\ unlinkAttempts = [i \in 1..Len(uploaded) |-> 0]
  /\ pending = {}
  /\ modelCalls = 0
  /\ modelResult = NoResult
  /\ responses = <<>>
  /\ StorageInit
  /\ ClientInit

(***************************************************************************)
(* Responses.                                                              *)
(***************************************************************************)
ErrorBody(status, msg) ==
  [status |-> status, error |-> msg, output |-> "", filesProcessed |-> 0, ok |-> FALSE]

OkBody(output, n) ==
  [status |-> 200, error |-> "", output |-> output, filesProcessed |-> n, ok |-> TRUE]

Responded == Len(responses) > 0
Status == responses[1].status

(***************************************************************************)
(* The upload middleware, upload.array("files", 10).                       *)
(***************************************************************************)
AllowedTypes ==
  { "image/jpeg", "image/jpg", "image/png", "image/gif", "image/webp",
    "text/plain", "text/markdown", "application/pdf", "application/msword",
    DocxType }

\* A fileFilter that lets every media type through.
FileFilter_AcceptAll(mimetype) == TRUE

\* fileFilter: cb(null, true) exactly for the media types of the allow-list
FileFilter(mimetype) == mimetype \in AllowedTypes

\* What the middleware does with the next file part i of the body:
\* "count" the part exceeds limits.files, "type" fileFilter passes an Error,
\* "nodir" the file cannot be written, "size" the file exceeds limits.fileSize,
\* "store" the file is written and appended to req.files.
MulterVerdict(i) ==
  IF Len(files) >= MaxFiles THEN "count"
  ELSE IF ~FileFilter(uploaded[i].mimetype) THEN "type"
  ELSE IF ~uploadDirExists THEN "nodir"
  ELSE IF uploaded[i].size > FileSizeLimit THEN "size"
  ELSE "store"

StoredFile(i) ==
  [originalname |-> OriginalName(i), mimetype |-> uploaded[i].mimetype,
   size |-> uploaded[i].size, path |-> i]

\* One file part is accepted and written to the uploads directory.
MulterStore ==
  /\ pc = "multer"
  /\ Len(files) < Len(uploaded)
  /\ MulterVerdict(Len(files) + 1) = "store"
  /\ files' = Append(files, StoredFile(Len(files) + 1))
  /\ disk' = disk \cup {Len(files) + 1}
  /\ UNCHANGED << inputs, pc, locked, unreadable, idx, userParts, reads,
                  unlinkAttempts, pending, modelCalls, modelResult, responses >>

\* The error the middleware passes to next(err) for the verdict.
MulterErrorOf(v, i) ==
  CASE v = "count" -> [multer |-> TRUE, code |-> "LIMIT_FILE_COUNT", message |-> "Too many files"]
    [] v = "size" -> [multer |-> TRUE, code |-> "LIMIT_FILE_SIZE", message |-> "File too large"]
    [] v = "type" -> [multer |-> FALSE, code |-> "",
                      message |-> "File type " \o uploaded[i].mimetype \o " is not supported"]
    [] OTHER -> [multer |-> FALSE, code |-> "ENOENT",
                 message |-> "ENOENT: no such file or directory"]

\* Error-handling middleware: app.use((error, req, res, next) => ...)
ErrorMiddleware(err) ==
  IF err.multer /\ err.code = "LIMIT_FILE_SIZE"
    THEN ErrorBody(400, "File too large. Maximum size is 10MB.")
  ELSE IF err.multer /\ err.code = "LIMIT_FILE_COUNT"
    THEN ErrorBody(400, "Too many files. Maximum is 10 files.")
  ELSE ErrorBody(500, IF err.message # "" THEN err.message ELSE "Internal server error")

\* A file part is refused: the middleware removes what it stored, the route
\* handler is skipped and the error-handling middleware answers.
MulterReject ==
  /\ pc = "multer"
  /\ Len(files) < Len(uploaded)
  /\ MulterVerdict(Len(files) + 1) # "store"
  /\ disk' = {}
  /\ responses' =
       Append(responses,
              ErrorMiddleware(MulterErrorOf(MulterVerdict(Len(files) + 1), Len(files) + 1)))
  /\ pc' = "done"
  /\ UNCHANGED << inputs, files, locked, unreadable, idx, userParts, reads,
                  unlinkAttempts, pending, modelCalls, modelResult >>

\* Indices of the stored files the handler reads (images and text files).
IsImage(m) == StartsWith(m, "image/")
IsText(m) == m = "text/plain" \/ m = "text/markdown"
IsDocument(m) == m = "application/pdf" \/ m = "application/msword" \/ m = DocxType

FaultScope == 1..Min(Len(files), MaxArb)

\* Every file part was accepted: next() runs the route handler.  The state of
\* the transient storage during the handler is fixed here: which of the
\* stored files cannot be removed and which cannot be read.
MulterDone ==
  /\ pc = "multer"
  /\ Len(files) = Len(uploaded)
  /\ locked' \in SUBSET FaultScope
  /\ unreadable' \in SUBSET { i \in FaultScope : IsImage(files[i].mimetype) \/ IsText(files[i].mimetype) }
  /\ pc' = "handler"
  /\ UNCHANGED << inputs, files, disk, idx, userParts, reads, unlinkAttempts,
                  pending, modelCalls, modelResult, responses >>

(***************************************************************************)
(* Helpers shared by the two route handlers.                               *)
(***************************************************************************)
FileIndices == 1..Len(files)

\* fs.unlink(f.path): the file is gone afterwards unless the removal fails;
\* removing a file that is already gone fails too, and changes nothing.
UnlinkOk(d, i) == i \in d /\ i \notin locked
Unlink(d, i) == IF UnlinkOk(d, i) THEN d \ {i} ELSE d

\* The storage after an unlink of every file of S, failures swallowed.
UnlinkEach(d, S) == { i \in d : ~(i \in S /\ UnlinkOk(d, i)) }

\* One more removal attempted for every file of S.
Attempted(att, S) == [i \in DOMAIN att |-> IF i \in S THEN att[i] + 1 ELSE att[i]]

\* fs.readFile(filePath) succeeds
ReadOk(i) == i \in disk /\ i \notin unreadable

TextPart(s, i) == [kind |-> "text", text |-> s, data |-> "", mimeType |-> "", src |-> i]

\* fileToGenerativePart: { inlineData: { data: base64 of the bytes, mimeType } }
fileToGenerativePart(i, mimeType) ==
  [kind |-> "inlineData", text |-> "", data |-> Base64(FileBytes(i)),
   mimeType |-> mimeType, src |-> i]

\* readTextFile: the content decoded as UTF-8
readTextFile(i) == FileText(i)

ImageInstruction == "Please analyze this image and describe what you see in detail."
TextInstruction == "Please summarize the content of this file."

\* The text announcing a PDF or Word document (the two servers break the
\* line differently).
DocumentNotice(i, sep) ==
  "I received a " \o (IF Includes(files[i].mimetype, "pdf") THEN "PDF" ELSE "Word")
    \o " document named \"" \o files[i].originalname \o "\". " \o sep
    \o "For better analysis, please convert this document to plain text or paste the content directly."

\* A loop that reads every attachment, whatever its type.
NeedsRead_EveryType(i) == TRUE

\* The file needs a read (image and text branches).
NeedsRead(i) == IsImage(files[i].mimetype) \/ IsText(files[i].mimetype)

\* A try block that pushes the default instruction whether or not the
\* request has a prompt.
FileParts_AlwaysInstruct(i, sep) ==
  LET m == files[i].mimetype IN
  IF IsImage(m) THEN
    IF ReadOk(i)
      THEN <<fileToGenerativePart(i, m), TextPart(ImageInstruction, i)>>
      ELSE <<>>
  ELSE IF IsText(m) THEN
    IF ReadOk(i)
      THEN <<TextPart("Content of file \"" \o files[i].originalname \o "\":\n" \o readTextFile(i), i),
             TextPart(TextInstruction, i)>>
      ELSE <<>>
  ELSE IF IsDocument(m) THEN <<TextPart(DocumentNotice(i, sep), i)>>
  ELSE <<>>

\* Body of the per-file try block: the parts pushed for file i.  A failed
\* read throws before anything is pushed.
FileParts(i, sep) ==
  LET m == files[i].mimetype IN
  IF IsImage(m) THEN
    IF ReadOk(i)
      THEN <<fileToGenerativePart(i, m)>>
             \o (IF ~Truthy(prompt) THEN <<TextPart(ImageInstruction, i)>> ELSE <<>>)
      ELSE <<>>
  ELSE IF IsText(m) THEN
    IF ReadOk(i)
      THEN <<TextPart("Content of file \"" \o files[i].originalname \o "\":\n" \o readTextFile(i), i)>>
             \o (IF ~Truthy(prompt) THEN <<TextPart(TextInstruction, i)>> ELSE <<>>)
      ELSE <<>>
  ELSE IF IsDocument(m) THEN <<TextPart(DocumentNotice(i, sep), i)>>
  ELSE <<>>

RECURSIVE JoinText(_)
\* parts.map((p) => typeof p?.text === "string" ? p.text : "").join("")
JoinText(ps) ==
  IF ps = <<>> THEN ""
  ELSE (IF Head(ps).isText THEN Head(ps).text ELSE "") \o JoinText(Tail(ps))

\* JSON.stringify of the response object
Stringify(r) == "{" \o r.raw \o "}"

\* An extraction that looks at the candidate's parts before the text()
\* method.
extractText_PartsFirst(r) ==
  IF r.hasParts THEN JoinText(r.parts)
  ELSE IF r.hasTextFn THEN r.textFn
  ELSE Stringify(r)

\* An extraction that knows the text() method only.
extractText_TextFnOnly(r) == IF r.hasTextFn THEN r.textFn ELSE ""

extractText(r) ==
  IF r.hasTextFn THEN r.textFn
  ELSE IF r.hasParts THEN JoinText(r.parts)
  ELSE Stringify(r)

Returned(r) == [kind |-> "returned", response |-> r, message |-> ""]
Threw(msg) == [kind |-> "threw", response |-> NoResponse, message |-> msg]

(***************************************************************************)
(* The ES-module route handler, lines 107-235.                             *)
(***************************************************************************)
\* const cleanup = async () => ...: unlink of every file of req.files
cleanup(d) == UnlinkEach(d, FileIndices)

\* A handler without the credential check: it goes on to assembly.
EsmStart_NoCredentialCheck ==
  /\ pc = "handler"
  /\ variant = "esm"
  /\ IF ~Truthy(prompt) /\ Len(files) = 0 THEN
       /\ disk' = cleanup(disk)
       /\ unlinkAttempts' = Attempted(unlinkAttempts, FileIndices)
       /\ responses' = Append(responses, ErrorBody(400, "Please provide a prompt or upload files"))
       /\ pc' = "done"
       /\ UNCHANGED userParts
     ELSE
       /\ userParts' = IF Truthy(prompt) THEN <<TextPart(prompt.text, 0)>> ELSE <<>>
       /\ pc' = "loop"
       /\ UNCHANGED << disk, unlinkAttempts, responses >>
  /\ UNCHANGED << inputs, files, locked, unreadable, idx, reads, pending,
                  modelCalls, modelResult >>

\* Lines 121-139: the two early returns, then the prompt part.
EsmStart ==
  /\ pc = "handler"
  /\ variant = "esm"
  /\ IF ~Truthy(prompt) /\ Len(files) = 0 THEN
       /\ disk' = cleanup(disk)
       /\ unlinkAttempts' = Attempted(unlinkAttempts, FileIndices)
       /\ responses' = Append(responses, ErrorBody(400, "Please provide a prompt or upload files"))
       /\ pc' = "done"
       /\ UNCHANGED userParts
     ELSE IF ~apiKey THEN
       /\ disk' = cleanup(disk)
       /\ unlinkAttempts' = Attempted(unlinkAttempts, FileIndices)
       /\ responses' = Append(responses, ErrorBody(500, "Gemini API key not configured"))
       /\ pc' = "done"
       /\ UNCHANGED userParts
     ELSE
       /\ userParts' = IF Truthy(prompt) THEN <<TextPart(prompt.text, 0)>> ELSE <<>>
       /\ pc' = "loop"
       /\ UNCHANGED << disk, unlinkAttempts, responses >>
  /\ UNCHANGED << inputs, files, locked, unreadable, idx, reads, pending,
                  modelCalls, modelResult >>

\* A loop that puts each file's parts in front of the parts pushed so far.
EsmFile_Prepend ==
  /\ pc = "loop"
  /\ variant = "esm"
  /\ idx < Len(files)
  /\ userParts' = FileParts(idx + 1, "") \o userParts
  /\ reads' = IF NeedsRead(idx + 1) THEN reads \cup {idx + 1} ELSE reads
  /\ idx' = idx + 1
  /\ UNCHANGED << inputs, pc, files, disk, locked, unreadable, unlinkAttempts,
                  pending, modelCalls, modelResult, responses >>

\* Lines 141-184: one turn of for (const file of files), errors caught.
EsmFile ==
  /\ pc = "loop"
  /\ variant = "esm"
  /\ idx < Len(files)
  /\ userParts' = userParts \o FileParts(idx + 1, "")
  /\ reads' = IF NeedsRead(idx + 1) THEN reads \cup {idx + 1} ELSE reads
  /\ idx' = idx + 1
  /\ UNCHANGED << inputs, pc, files, disk, locked, unreadable, unlinkAttempts,
                  pending, modelCalls, modelResult, responses >>

\* The model call issued without the cleanup that precedes it.
EsmAfterLoop_NoCleanup ==
  /\ pc = "loop"
  /\ variant = "esm"
  /\ idx = Len(files)
  /\ IF Len(userParts) = 0 THEN
       /\ responses' = Append(responses, ErrorBody(400, "No valid content to process"))
       /\ pc' = "done"
       /\ UNCHANGED modelCalls
     ELSE
       /\ modelCalls' = modelCalls + 1
       /\ pc' = "invoking"
       /\ UNCHANGED responses
  /\ UNCHANGED << inputs, files, disk, locked, unreadable, idx, userParts, reads,
                  unlinkAttempts, pending, modelResult >>

\* Lines 186-198: cleanup, the empty-parts return, the model call is issued.
EsmAfterLoop ==
  /\ pc = "loop"
  /\ variant = "esm"
  /\ idx = Len(files)
  /\ disk' = cleanup(disk)
  /\ unlinkAttempts' = Attempted(unlinkAttempts, FileIndices)
  /\ IF Len(userParts) = 0 THEN
       /\ responses' = Append(responses, ErrorBody(400, "No valid content to process"))
       /\ pc' = "done"
       /\ UNCHANGED modelCalls
     ELSE
       /\ modelCalls' = modelCalls + 1
       /\ pc' = "invoking"
       /\ UNCHANGED responses
  /\ UNCHANGED << inputs, files, locked, unreadable, idx, userParts, reads,
                  pending, modelResult >>

\* A success response that counts the attachments that contributed a part.
EsmModelReturn_CountsContributors ==
  /\ pc = "invoking"
  /\ variant = "esm"
  /\ \E r \in ModelResponses :
       /\ modelResult' = Returned(r)
       /\ responses' =
            Append(responses,
                   OkBody(extractText(r),
                          Cardinality({ i \in FileIndices :
                                          \E k \in 1..Len(userParts) : userParts[k].src = i })))
  /\ pc' = "done"
  /\ UNCHANGED << inputs, files, disk, locked, unreadable, idx, userParts, reads,
                  unlinkAttempts, pending, modelCalls >>

\* Lines 200-201: the call returned; the text is extracted and sent.
EsmModelReturn ==
  /\ pc = "invoking"
  /\ variant = "esm"
  /\ \E r \in ModelResponses :
       /\ modelResult' = Returned(r)
       /\ responses' = Append(responses, OkBody(extractText(r), Len(files)))
  /\ pc' = "done"
  /\ UNCHANGED << inputs, files, disk, locked, unreadable, idx, userParts, reads,
                  unlinkAttempts, pending, modelCalls >>

\* Lines 214-233: the response for a caught error, by its message.
EsmClassify(msg) ==
  IF Includes(msg, "API key") \/ Includes(msg, "UNAUTHENTICATED")
    THEN ErrorBody(500, "Invalid API key configuration")
  ELSE IF Includes(msg, "SAFETY")
    THEN ErrorBody(400, "Content was blocked by safety filters")
  ELSE IF Includes(msg, "QUOTA") \/ Includes(msg, "RESOURCE_EXHAUSTED")
    THEN ErrorBody(429, "API quota exceeded. Please try again later.")
  ELSE ErrorBody(500, msg)

\* A catch block that calls the model a second time before giving up.
EsmModelThrow_Retry ==
  /\ pc = "invoking"
  /\ variant = "esm"
  /\ \E msg \in ErrorMessages :
       /\ modelResult' = Threw(msg)
       /\ IF modelCalls < 2
            THEN /\ modelCalls' = modelCalls + 1
                 /\ pc' = "invoking"
                 /\ UNCHANGED responses
            ELSE /\ responses' = Append(responses, EsmClassify(msg))
                 /\ pc' = "done"
                 /\ UNCHANGED modelCalls
  /\ disk' = UnlinkEach(disk, FileIndices)
  /\ unlinkAttempts' = Attempted(unlinkAttempts, FileIndices)
  /\ UNCHANGED << inputs, files, locked, unreadable, idx, userParts, reads, pending >>

\* Lines 202-234: the call threw; best-effort cleanup, then the classified
\* response.
EsmModelThrow ==
  /\ pc = "invoking"
  /\ variant = "esm"
  /\ \E msg \in ErrorMessages :
       /\ modelResult' = Threw(msg)
       /\ responses' = Append(responses, EsmClassify(msg))
  /\ disk' = UnlinkEach(disk, FileIndices)
  /\ unlinkAttempts' = Attempted(unlinkAttempts, FileIndices)
  /\ pc' = "done"
  /\ UNCHANGED << inputs, files, locked, unreadable, idx, userParts, reads,
                  pending, modelCalls >>

(***************************************************************************)
(* The CommonJS route handler, lines 396-502.                              *)
(***************************************************************************)
\* A handler that checks the credential before the content.
CjsStart_CredentialFirst ==
  /\ pc = "handler"
  /\ variant = "cjs"
  /\ IF ~apiKey THEN
       /\ responses' = Append(responses, ErrorBody(500, "Gemini API key not configured"))
       /\ pc' = "done"
       /\ UNCHANGED userParts
     ELSE IF ~Truthy(prompt) /\ Len(files) = 0 THEN
       /\ responses' = Append(responses, ErrorBody(400, "Please provide a prompt or upload files"))
       /\ pc' = "done"
       /\ UNCHANGED userParts
     ELSE
       /\ userParts' = IF Truthy(prompt) THEN <<TextPart(prompt.text, 0)>> ELSE <<>>
       /\ pc' = "loop"
       /\ UNCHANGED responses
  /\ UNCHANGED << inputs, files, disk, locked, unreadable, idx, reads,
                  unlinkAttempts, pending, modelCalls, modelResult >>

\* Lines 398-417: the two early returns (no cleanup), then the prompt part.
CjsStart ==
  /\ pc = "handler"
  /\ variant = "cjs"
  /\ IF ~Truthy(prompt) /\ Len(files) = 0 THEN
       /\ responses' = Append(responses, ErrorBody(400, "Please provide a prompt or upload files"))
       /\ pc' = "done"
       /\ UNCHANGED userParts
     ELSE IF ~apiKey THEN
       /\ responses' = Append(responses, ErrorBody(500, "Gemini API key not configured"))
       /\ pc' = "done"
       /\ UNCHANGED userParts
     ELSE
       /\ userParts' = IF Truthy(prompt) THEN <<TextPart(prompt.text, 0)>> ELSE <<>>
       /\ pc' = "loop"
       /\ UNCHANGED responses
  /\ UNCHANGED << inputs, files, disk, locked, unreadable, idx, reads,
                  unlinkAttempts, pending, modelCalls, modelResult >>

\* The try block of file i ran to its last statement, await fs.unlink.
ReachesUnlink(i) == ~NeedsRead(i) \/ ReadOk(i)

\* A loop without the per-file try/catch: a failed read ends the request.
CjsFile_FailFast ==
  /\ pc = "loop"
  /\ variant = "cjs"
  /\ idx < Len(files)
  /\ reads' = IF NeedsRead(idx + 1) THEN reads \cup {idx + 1} ELSE reads
  /\ IF ReachesUnlink(idx + 1) THEN
       /\ userParts' = userParts \o FileParts(idx + 1, "\n                     ")
       /\ disk' = Unlink(disk, idx + 1)
       /\ unlinkAttempts' = Attempted(unlinkAttempts, {idx + 1})
       /\ idx' = idx + 1
       /\ UNCHANGED << pc, responses >>
     ELSE
       /\ responses' = Append(responses, ErrorBody(500, "Failed to process uploaded file"))
       /\ pc' = "done"
       /\ UNCHANGED << userParts, disk, unlinkAttempts, idx >>
  /\ UNCHANGED << inputs, files, locked, unreadable, pending, modelCalls, modelResult >>

\* A loop in which a failed unlink is not caught per file: it ends the
\* request with the error's message.
CjsFile_UnlinkFatal ==
  /\ pc = "loop"
  /\ variant = "cjs"
  /\ idx < Len(files)
  /\ userParts' = userParts \o FileParts(idx + 1, "\n                     ")
  /\ reads' = IF NeedsRead(idx + 1) THEN reads \cup {idx + 1} ELSE reads
  /\ IF ReachesUnlink(idx + 1) THEN
       /\ disk' = Unlink(disk, idx + 1)
       /\ unlinkAttempts' = Attempted(unlinkAttempts, {idx + 1})
     ELSE UNCHANGED << disk, unlinkAttempts >>
  /\ IF ReachesUnlink(idx + 1) /\ ~UnlinkOk(disk, idx + 1) THEN
       /\ responses' = Append(responses, ErrorBody(500, "EPERM: operation not permitted, unlink"))
       /\ pc' = "done"
       /\ UNCHANGED idx
     ELSE
       /\ idx' = idx + 1
       /\ UNCHANGED << pc, responses >>
  /\ UNCHANGED << inputs, files, locked, unreadable, pending, modelCalls, modelResult >>

\* Lines 420-456: one turn of the loop; the file is unlinked at the end of
\* the try block, which a failed read never reaches.
CjsFile ==
  /\ pc = "loop"
  /\ variant = "cjs"
  /\ idx < Len(files)
  /\ userParts' = userParts \o FileParts(idx + 1, "\n                     ")
  /\ reads' = IF NeedsRead(idx + 1) THEN reads \cup {idx + 1} ELSE reads
  /\ IF ReachesUnlink(idx + 1) THEN
       /\ disk' = Unlink(disk, idx + 1)
       /\ unlinkAttempts' = Attempted(unlinkAttempts, {idx + 1})
     ELSE UNCHANGED << disk, unlinkAttempts >>
  /\ idx' = idx + 1
  /\ UNCHANGED << inputs, pc, files, locked, unreadable, pending, modelCalls,
                  modelResult, responses >>

\* The model call issued without the empty-parts return before it.
CjsAfterLoop_NoEmptyCheck ==
  /\ pc = "loop"
  /\ variant = "cjs"
  /\ idx = Len(files)
  /\ modelCalls' = modelCalls + 1
  /\ pc' = "invoking"
  /\ UNCHANGED << inputs, files, disk, locked, unreadable, idx, userParts, reads,
                  unlinkAttempts, pending, modelResult, responses >>

\* Lines 458-465: the empty-parts return, the model call is issued.
CjsAfterLoop ==
  /\ pc = "loop"
  /\ variant = "cjs"
  /\ idx = Len(files)
  /\ IF Len(userParts) = 0 THEN
       /\ responses' = Append(responses, ErrorBody(400, "No valid content to process"))
       /\ pc' = "done"
       /\ UNCHANGED modelCalls
     ELSE
       /\ modelCalls' = modelCalls + 1
       /\ pc' = "invoking"
       /\ UNCHANGED responses
  /\ UNCHANGED << inputs, files, disk, locked, unreadable, idx, userParts, reads,
                  unlinkAttempts, pending, modelResult >>

\* Lines 466-472: the call returned; response.text() is sent.
CjsModelReturn ==
  /\ pc = "invoking"
  /\ variant = "cjs"
  /\ \E r \in { x \in ModelResponses : x.hasTextFn } :
       /\ modelResult' = Returned(r)
       /\ responses' = Append(responses, OkBody(r.textFn, Len(files)))
  /\ pc' = "done"
  /\ UNCHANGED << inputs, files, disk, locked, unreadable, idx, userParts, reads,
                  unlinkAttempts, pending, modelCalls >>

\* A classification without the safety branch.
CjsClassify_NoSafety(msg) ==
  IF Includes(msg, "API_KEY")
    THEN ErrorBody(500, "Invalid API key configuration")
  ELSE IF Includes(msg, "QUOTA_EXCEEDED")
    THEN ErrorBody(429, "API quota exceeded. Please try again later.")
  ELSE ErrorBody(500, IF msg # "" THEN msg ELSE "Internal server error")

\* Lines 488-500: the response for a caught error, by its message.
CjsClassify(msg) ==
  IF Includes(msg, "API_KEY")
    THEN ErrorBody(500, "Invalid API key configuration")
  ELSE IF Includes(msg, "SAFETY")
    THEN ErrorBody(400, "Content was blocked by safety filters")
  ELSE IF Includes(msg, "QUOTA_EXCEEDED")
    THEN ErrorBody(429, "API quota exceeded. Please try again later.")
  ELSE ErrorBody(500, IF msg # "" THEN msg ELSE "Internal server error")

\* A catch block whose classified branches do not return: the generic 500
\* is sent after the classified response.
CjsModelThrow_FallThrough ==
  /\ pc = "invoking"
  /\ variant = "cjs"
  /\ \E msg \in ErrorMessages :
       /\ modelResult' = Threw(msg)
       /\ responses' = Append(Append(responses, CjsClassify(msg)), ErrorBody(500, msg))
  /\ pending' = FileIndices
  /\ unlinkAttempts' = Attempted(unlinkAttempts, FileIndices)
  /\ pc' = "done"
  /\ UNCHANGED << inputs, files, disk, locked, unreadable, idx, userParts, reads,
                  modelCalls >>

\* Lines 474-501: the call threw; an unlink of every file is started and not
\* awaited, and the classified response is sent in the same turn.
CjsModelThrow ==
  /\ pc = "invoking"
  /\ variant = "cjs"
  /\ \E msg \in ErrorMessages :
       /\ modelResult' = Threw(msg)
       /\ responses' = Append(responses, CjsClassify(msg))
  /\ pending' = FileIndices
  /\ unlinkAttempts' = Attempted(unlinkAttempts, FileIndices)
  /\ pc' = "done"
  /\ UNCHANGED << inputs, files, disk, locked, unreadable, idx, userParts, reads,
                  modelCalls >>

\* Lines 479-485: the unlinks started in the catch block settle, after the
\* response.
CjsUnlinkSettle ==
  /\ pending # {}
  /\ disk' = UnlinkEach(disk, pending)
  /\ pending' = {}
  /\ UNCHANGED << inputs, pc, files, locked, unreadable, idx, userParts, reads,
                  unlinkAttempts, modelCalls, modelResult, responses >>

Next ==
  \/ MulterStore
  \/ MulterReject
  \/ MulterDone
  \/ EsmStart
  \/ EsmFile
  \/ EsmAfterLoop
  \/ EsmModelReturn
  \/ EsmModelThrow
  \/ CjsStart
  \/ CjsFile
  \/ CjsAfterLoop
  \/ CjsModelReturn
  \/ CjsModelThrow
  \/ CjsUnlinkSettle

Spec == Init /\ [][Next]_vars

(***************************************************************************)
(* The uploads directory shared by two requests in flight: the names the   *)
(* storage engine gives the files, the reads and the cleanup.              *)
(***************************************************************************)
\* path.extname(file.originalname) of the uploaded files
Extensions == {".png", ".txt"}

\* Math.round(Math.random() * 1e9): an integer of 0..1e9
RandomSuffixes == 0..MaxRandom

\* filename: `${file.fieldname}-${Date.now()}-${random}${extname}`, the field
\* name being "files"
Filename(t, rnd, ext) == "files-" \o ToString(t) \o "-" \o ToString(rnd) \o ext

\* The bytes of attachment k of request r.
Content(r, k) == [req |-> r, k |-> k]
Missing == [req |-> 0, k |-> 0]

\* fs.createWriteStream(path) then write: a file of that name is replaced.
WriteFile(dir, name, c) ==
  { e \in dir : e.name # name } \cup { [name |-> name, content |-> c] }

\* fs.unlink(path), errors swallowed
RemoveFile(dir, name) == { e \in dir : e.name # name }

\* fs.readFile(path): the content of the file of that name, if there is one
ReadFile(dir, name) ==
  IF \E e \in dir : e.name = name
    THEN (CHOOSE e \in dir : e.name = name).content
    ELSE Missing

RECURSIVE RemoveAll(_, _)
RemoveAll(dir, names) ==
  IF names = <<>> THEN dir ELSE RemoveAll(RemoveFile(dir, Head(names)), Tail(names))

\* A millisecond passes.
Tick ==
  /\ now < MaxClock
  /\ now' = now + 1
  /\ UNCHANGED << requestVars, clientVars, uploadsDir, reqPaths, reqPc, reqReads >>

\* The storage engine names and writes the next file part of request r.
StoreUpload(r) ==
  /\ reqPc[r] = "upload"
  /\ Len(reqPaths[r]) < MaxStored
  /\ \E rnd \in RandomSuffixes, ext \in Extensions :
       LET name == Filename(now, rnd, ext) IN
       /\ uploadsDir' = WriteFile(uploadsDir, name, Content(r, Len(reqPaths[r]) + 1))
       /\ reqPaths' = [reqPaths EXCEPT ![r] = Append(@, name)]
  /\ UNCHANGED << requestVars, clientVars, now, reqPc, reqReads >>

\* The upload middleware is through with the body of r: its handler runs.
BeginHandler(r) ==
  /\ reqPc[r] = "upload"
  /\ Len(reqPaths[r]) > 0
  /\ reqPc' = [reqPc EXCEPT ![r] = "handler"]
  /\ UNCHANGED << requestVars, clientVars, now, uploadsDir, reqPaths, reqReads >>

\* The handler of r reads its next file.
ReadUpload(r) ==
  /\ reqPc[r] = "handler"
  /\ Len(reqReads[r]) < Len(reqPaths[r])
  /\ reqReads' = [reqReads EXCEPT
                    ![r] = Append(@, ReadFile(uploadsDir, reqPaths[r][Len(@) + 1]))]
  /\ UNCHANGED << requestVars, clientVars, now, uploadsDir, reqPaths, reqPc >>

\* cleanup of r: an unlink of every f.path of req.files.
CleanupUploads(r) ==
  /\ reqPc[r] = "handler"
  /\ Len(reqReads[r]) = Len(reqPaths[r])
  /\ uploadsDir' = RemoveAll(uploadsDir, reqPaths[r])
  /\ reqPc' = [reqPc EXCEPT ![r] = "done"]
  /\ UNCHANGED << requestVars, clientVars, now, reqPaths, reqReads >>

\* The single-request pipeline at rest while the directory is looked at.
PipelineIdle ==
  /\ variant = "esm"
  /\ apiKey = TRUE
  /\ uploadDirExists = TRUE
  /\ prompt = [given |-> FALSE, text |-> ""]
  /\ uploaded = <<>>
  /\ pc = "done"
  /\ files = <<>>
  /\ disk = {}
  /\ locked = {}
  /\ unreadable = {}
  /\ idx = 0
  /\ userParts = <<>>
  /\ reads = {}
  /\ unlinkAttempts = <<>>
  /\ pending = {}
  /\ modelCalls = 0
  /\ modelResult = NoResult
  /\ responses = <<>>

InitStorage == PipelineIdle /\ StorageInit /\ ClientInit

NextStorage ==
  \/ Tick
  \/ \E r \in Requests : StoreUpload(r)
  \/ \E r \in Requests : BeginHandler(r)
  \/ \E r \in Requests : ReadUpload(r)
  \/ \E r \in Requests : CleanupUploads(r)

SpecStorage == InitStorage /\ [][NextStorage]_vars

(***************************************************************************)
(* The chat client: component ChatInterface, one session.                  *)
(***************************************************************************)
\* What the user types into the textarea.
Texts == {"", " ", "hi"}

RECURSIVE TrimStart(_)
TrimStart(t) ==
  IF Len(t) > 0 /\ SubSeq(t, 1, 1) = " " THEN TrimStart(SubSeq(t, 2, Len(t))) ELSE t

RECURSIVE TrimEnd(_)
TrimEnd(t) ==
  IF Len(t) > 0 /\ SubSeq(t, Len(t), Len(t)) = " "
    THEN TrimEnd(SubSeq(t, 1, Len(t) - 1)) ELSE t

\* String.prototype.trim
Trim(t) == TrimEnd(TrimStart(t))

\* Nothing to send: !inputText.trim() && attachedFiles.length === 0
NothingToSend == Trim(inputText) = "" /\ Len(attachedFiles) = 0

\* A call of sendMessage that has got to its fetch.
\* via: the input path that made the call; ok: response.ok; parsed:
\* response.json() gave a value.
Fetching(via) ==
  [state |-> "fetching", via |-> via, ok |-> FALSE, parsed |-> FALSE]

UserMessage(c) == [type |-> "user", send |-> c]
ReplyMessage(type, c) == [type |-> type, send |-> c]

\* sendMessage up to its first await: the guard, the user message, the
\* state resets, the loading flag, the fetch.
sendMessage(via) ==
  IF NothingToSend THEN UNCHANGED clientVars
  ELSE
    /\ sends' = Append(sends, Fetching(via))
    /\ messages' = Append(messages, UserMessage(Len(sends) + 1))
    /\ inputText' = ""
    /\ attachedFiles' = <<>>
    /\ isLoading' = TRUE

\* onChange of the textarea
TypeText ==
  /\ \E t \in Texts : t # inputText /\ inputText' = t
  /\ UNCHANGED << requestVars, storageVars, messages, attachedFiles, isLoading, sends >>

\* handleFileUpload with one file chosen
AttachFile ==
  /\ Len(attachedFiles) < MaxAttached
  /\ attachedFiles' = Append(attachedFiles, "file")
  /\ UNCHANGED << requestVars, storageVars, messages, inputText, isLoading, sends >>

\* onKeyDown of the textarea with Enter and no Shift
PressEnter ==
  /\ Len(sends) < MaxSends
  /\ sendMessage("enter")
  /\ UNCHANGED << requestVars, storageVars >>

\* onClick of the send button, which is disabled while loading and while
\* there is nothing to send
ClickSend ==
  /\ Len(sends) < MaxSends
  /\ ~(isLoading \/ NothingToSend)
  /\ sendMessage("button")
  /\ UNCHANGED << requestVars, storageVars >>

\* A call without the finally block: the loading flag is cleared on the
\* success path only.
FinishSend_NoFinally(c, type, ok, parsed) ==
  /\ messages' = Append(messages, ReplyMessage(type, c))
  /\ isLoading' = IF type = "ai" THEN FALSE ELSE isLoading
  /\ sends' = [sends EXCEPT ![c] = [@ EXCEPT !.state = "done", !.ok = ok, !.parsed = parsed]]
  /\ UNCHANGED << requestVars, storageVars, inputText, attachedFiles >>

\* The rest of a call after its try block: the reply message is appended,
\* then finally clears the loading flag.
FinishSend(c, type, ok, parsed) ==
  /\ messages' = Append(messages, ReplyMessage(type, c))
  /\ isLoading' = FALSE
  /\ sends' = [sends EXCEPT ![c] = [@ EXCEPT !.state = "done", !.ok = ok, !.parsed = parsed]]
  /\ UNCHANGED << requestVars, storageVars, inputText, attachedFiles >>

\* fetch resolves with a response, of a 2xx status or not.
FetchResolve(c) ==
  /\ sends[c].state = "fetching"
  /\ \E ok \in BOOLEAN :
       sends' = [sends EXCEPT ![c] = [@ EXCEPT !.state = "parsing", !.ok = ok]]
  /\ UNCHANGED << requestVars, storageVars, messages, inputText, attachedFiles, isLoading >>

\* fetch rejects (no connection): the catch block.
FetchReject(c) ==
  /\ sends[c].state = "fetching"
  /\ FinishSend(c, "error", FALSE, FALSE)

\* response.json() settles: it rejects on a body that is no JSON; otherwise
\* !response.ok throws, and a 2xx response gives the ai message.
BodySettle(c) ==
  /\ sends[c].state = "parsing"
  /\ \E parsed \in BOOLEAN :
       FinishSend(c, IF parsed /\ sends[c].ok THEN "ai" ELSE "error", sends[c].ok, parsed)

InitClient == PipelineIdle /\ StorageInit /\ ClientInit

NextClient ==
  \/ TypeText
  \/ AttachFile
  \/ PressEnter
  \/ ClickSend
  \/ \E c \in DOMAIN sends : FetchResolve(c)
  \/ \E c \in DOMAIN sends : FetchReject(c)
  \/ \E c \in DOMAIN sends : BodySettle(c)

SpecClient == InitClient /\ [][NextClient]_vars

(***************************************************************************)
(* Vocabulary of the properties.                                           *)
(***************************************************************************)
\* The upload middleware accepted every file part and the route handler ran.
HandlerRan == pc # "multer" /\ Len(files) = Len(uploaded)

\* The request passed the handler's own checks: content and credential.
PassedValidation == HandlerRan /\ (Truthy(prompt) \/ Len(files) > 0) /\ apiKey

Response == responses[1]

(***************************************************************************)
(* C1.  When the response of a request that carries attachments is sent,   *)
(* none of its stored files exists any more, and a second cleanup changes  *)
(* nothing.  Stated for the requests none of whose removals fails.         *)
(* Violated: the CommonJS handler returns on a missing credential, and     *)
(* skips a file whose read failed, without removing anything.              *)
(***************************************************************************)
C1_NoStorageLeftAtResponse ==
  (Responded /\ Len(files) > 0 /\ locked = {})
    => (disk = {} /\ cleanup(disk) = disk)

(***************************************************************************)
(* C2.  For every request the handler ran for, removal of each             *)
(* attachment's stored file is attempted exactly once: never twice at any  *)
(* time, and once when the request is over.  Violated: no attempt on the   *)
(* CommonJS early return, two attempts when the model call throws.         *)
(***************************************************************************)
C2_RemovalAttemptedExactlyOnce ==
  /\ \A i \in DOMAIN unlinkAttempts : unlinkAttempts[i] <= 1
  /\ (pc = "done" /\ HandlerRan) => \A i \in FileIndices : unlinkAttempts[i] = 1

(***************************************************************************)
(* C3.  The remote model is invoked at most once per request, and exactly  *)
(* once for every request that passes validation and yields a non-empty    *)
(* part sequence; a call that threw is not repeated.                       *)
(***************************************************************************)
C3_ModelInvokedOnce ==
  /\ modelCalls <= 1
  /\ modelCalls = 1 => (pc \in {"invoking", "done"} /\ PassedValidation /\ userParts # <<>>)
  /\ (pc = "done" /\ PassedValidation /\ userParts # <<>>) => modelCalls = 1
  /\ modelResult.kind = "threw" => (pc = "done" /\ modelCalls = 1)

\* A request with attachments whose single model call threw, and is over.
C3_Witness ==
  pc = "done" /\ modelResult.kind = "threw" /\ modelCalls = 1 /\ Len(files) > 0

(***************************************************************************)
(* C4.  A request with an empty or absent prompt and no attachment is      *)
(* answered 400 "Please provide a prompt or upload files" and the model is *)
(* never invoked for it, whether or not a credential is configured.        *)
(***************************************************************************)
C4_NoContentRejected ==
  (~Truthy(prompt) /\ uploaded = <<>>)
    => /\ modelCalls = 0
       /\ pc # "invoking"
       /\ pc = "done" => /\ Len(responses) = 1
                         /\ Status = 400
                         /\ Response.error = "Please provide a prompt or upload files"

\* Such a request, prompt field absent and no credential configured, answered.
C4_Witness ==
  /\ pc = "done" /\ ~prompt.given /\ uploaded = <<>> /\ ~apiKey
  /\ Responded /\ Status = 400

(***************************************************************************)
(* C5.  A request submitting 11 attachments is answered 400, no attachment *)
(* of it is read and no model call is made.  Violated: when one of the     *)
(* first ten has an unsupported media type the answer is 500 (C6).  Stated *)
(* for a server whose uploads directory exists.                            *)
(***************************************************************************)
C5_ElevenAttachmentsRejected400 ==
  (Len(uploaded) = MaxFiles + 1 /\ uploadDirExists)
    => /\ reads = {}
       /\ modelCalls = 0
       /\ pc = "done" => Status = 400

(***************************************************************************)
(* C6.  A request whose first refused attachment is one with a media type  *)
(* outside the allow-list is answered 400 with an error naming that media  *)
(* type, and none of its attachments is read or sent to the model.         *)
(* Violated: the error-handling middleware answers 500.                    *)
(***************************************************************************)
C6_UnsupportedTypeRejected400 ==
  \A i \in 1..Min(Len(uploaded), MaxFiles) :
    ( /\ uploadDirExists
      /\ ~FileFilter(uploaded[i].mimetype)
      /\ \A j \in 1..(i - 1) : /\ FileFilter(uploaded[j].mimetype)
                               /\ uploaded[j].size <= FileSizeLimit )
      => /\ reads = {}
         /\ modelCalls = 0
         /\ pc = "done" => /\ Status = 400
                           /\ Includes(Response.error, uploaded[i].mimetype)

(***************************************************************************)
(* C7.  Whenever the handler runs (and so whenever it reads an attachment  *)
(* or invokes the model) the request has at most 10 attachments, each of   *)
(* at most 10 MB and of an allowed media type; a request holding any other *)
(* media type never reaches the handler, has no attachment read and makes  *)
(* no model call.                                                          *)
(***************************************************************************)
SpecAllowList ==
  { "image/jpeg", "image/png", "image/gif", "image/webp", "text/plain",
    "text/markdown", "application/pdf", "application/msword", DocxType }

Admitted(allowList) ==
  /\ (reads # {} \/ modelCalls > 0) => HandlerRan
  /\ HandlerRan => /\ Len(files) <= 10
                   /\ \A i \in FileIndices : /\ files[i].size <= 10 * 1024 * 1024
                                             /\ files[i].mimetype \in allowList
  /\ (\E i \in 1..Len(uploaded) : uploaded[i].mimetype \notin allowList)
       => (~HandlerRan /\ reads = {} /\ modelCalls = 0)

\* The claim as written: the allow-list is the nine types of the specification.
C7_SpecAllowListOnly == Admitted(SpecAllowList)

\* As amended: the allow-list also holds image/jpg.
C7_AdmissionInvariant == Admitted(SpecAllowList \cup {"image/jpg"})

\* The handler has read an image/jpg attachment of exactly 10 MB.
C7_Witness ==
  \E i \in reads : files[i].mimetype = "image/jpg" /\ files[i].size = 10 * 1024 * 1024

(***************************************************************************)
(* C8.  The part sequence has the prompt text part first when the prompt   *)
(* is non-empty, then the parts of the attachments in upload order: the    *)
(* parts of attachment i all precede those of attachment j for i < j.      *)
(* Prompt "hi" with two text attachments gives the three text parts in     *)
(* that order.                                                             *)
(***************************************************************************)
TextFileContent(i) == "Content of file \"file" \o ToString(i) \o "\":\ntext of file" \o ToString(i)

HiAndTwoTextFiles ==
  /\ prompt = [given |-> TRUE, text |-> "hi"]
  /\ Len(uploaded) = 2
  /\ \A i \in 1..2 : uploaded[i].mimetype = "text/plain"
  /\ modelCalls = 1
  /\ unreadable = {}

C8_PartsInUploadOrder ==
  /\ \A a \in 1..Len(userParts) :
       /\ userParts[a].src = 0 <=> (a = 1 /\ Truthy(prompt))
       /\ \A b \in (a + 1)..Len(userParts) : userParts[a].src <= userParts[b].src
  /\ (Truthy(prompt) /\ userParts # <<>>)
       => (userParts[1].kind = "text" /\ userParts[1].text = prompt.text)
  /\ (Truthy(prompt) /\ pc \in {"loop", "invoking"}) => userParts # <<>>
  /\ HiAndTwoTextFiles
       => [k \in 1..Len(userParts) |-> userParts[k].text]
            = << "hi", TextFileContent(1), TextFileContent(2) >>

\* The example request, assembled and sent to the model.
C8_Witness == HiAndTwoTextFiles /\ Len(userParts) = 3 /\ modelCalls = 1

(***************************************************************************)
(* C9.  A request with a non-empty prompt and no attachment is answered    *)
(* 200 with filesProcessed = 0 and a non-empty output.                     *)
(***************************************************************************)
PromptOnly == Truthy(prompt) /\ uploaded = <<>>

CarriesNoText(r) ==
  IF r.hasTextFn THEN r.textFn = ""
  ELSE r.hasParts /\ \A k \in 1..Len(r.parts) : ~r.parts[k].isText \/ r.parts[k].text = ""

SafetyFailure == modelResult.kind = "threw" /\ Includes(modelResult.message, "SAFETY")

\* The claim as written: whatever else the message contains.
C10_SafetyAlways400 ==
  SafetyFailure
    => /\ Responded
       /\ Status = 400
       /\ Response.error = "Content was blocked by safety filters"

\* The message also holds a credential indicator, which each server tests
\* before the safety indicator.
CredentialIndicator(msg) ==
  IF variant = "esm"
    THEN Includes(msg, "API key") \/ Includes(msg, "UNAUTHENTICATED")
    ELSE Includes(msg, "API_KEY")

\* As amended: 400 with the fixed safety message unless the message also
\* holds a credential indicator, and then 500 with the fixed configuration
\* message; the raw error text in neither case.
C10_SafetyFixedMessage ==
  SafetyFailure
    => /\ Len(responses) = 1
       /\ Response.error # modelResult.message
       /\ IF CredentialIndicator(modelResult.message)
            THEN Status = 500 /\ Response.error = "Invalid API key configuration"
            ELSE Status = 400 /\ Response.error = "Content was blocked by safety filters"

\* A safety failure without credential indicator, answered by the CommonJS
\* server.
C10_Witness ==
  /\ SafetyFailure /\ variant = "cjs"
  /\ ~CredentialIndicator(modelResult.message)
  /\ Status = 400

(***************************************************************************)
(* C11.  Every failure that reaches the catch block is answered once, by   *)
(* the first match in this order: the message refers to the credential or  *)
(* to authentication -> 500 configuration error; to a safety block -> 400; *)
(* to quota or resource exhaustion -> 429; anything else -> 500 with the   *)
(* error message.  The indicators are those of the ES-module server.       *)
(* Violated: the CommonJS server knows neither UNAUTHENTICATED nor         *)
(* "API key" nor RESOURCE_EXHAUSTED, and answers those 500 (or 400) with   *)
(* the raw message.                                                        *)
(***************************************************************************)
RefersToCredential(msg) == Includes(msg, "API key") \/ Includes(msg, "UNAUTHENTICATED")
RefersToSafety(msg) == Includes(msg, "SAFETY")
RefersToQuota(msg) == Includes(msg, "QUOTA") \/ Includes(msg, "RESOURCE_EXHAUSTED")

C11_FirstMatchClassification ==
  modelResult.kind = "threw"
    => /\ Len(responses) = 1
       /\ LET msg == modelResult.message IN
          IF RefersToCredential(msg)
            THEN Status = 500 /\ Response.error = "Invalid API key configuration"
          ELSE IF RefersToSafety(msg)
            THEN Status = 400 /\ Response.error = "Content was blocked by safety filters"
          ELSE IF RefersToQuota(msg)
            THEN Status = 429 /\ Response.error = "API quota exceeded. Please try again later."
          ELSE Status = 500 /\ Response.error = msg

(***************************************************************************)
(* C12.  Every request the handler accepted ends, from every branch, in    *)
(* the terminal state in which a response has been sent and cleanup is     *)
(* done: when nothing is left to run, the request is answered and the      *)
(* removal of each of its stored files has been attempted.  Violated: the  *)
(* CommonJS handler ends on a missing credential, and after a failed read, *)
(* with no removal attempted (C1, C2).                                     *)
(***************************************************************************)
Terminal == pc = "done" /\ pending = {}

CleanupDone == \A i \in FileIndices : unlinkAttempts[i] >= 1

C12_TerminalStateCleanedUp ==
  (Terminal /\ HandlerRan) => (Responded /\ CleanupDone)

(***************************************************************************)
(* C13.  When the read of an attachment fails during assembly, no part is  *)
(* emitted for it, every other attachment is still processed and emits its *)
(* parts in upload order, and the request does not fail because of the     *)
(* read failure.                                                           *)
(***************************************************************************)
ReadFailed(i) == i \in reads /\ i \in unreadable

PartsFrom(i) == SelectSeq(userParts, LAMBDA p : p.src = i)

\* Skipped attachments emit nothing, the others emit their parts, in upload
\* order, and the loop goes through every attachment.
ReadFailureIsolated ==
  /\ \A i \in 1..idx : IF ReadFailed(i) THEN PartsFrom(i) = <<>> ELSE PartsFrom(i) # <<>>
  /\ \A a \in 1..Len(userParts) : \A b \in (a + 1)..Len(userParts) :
       userParts[a].src <= userParts[b].src
  /\ (PassedValidation /\ pc \in {"invoking", "done"}) => idx = Len(files)

\* The request ended without a failed model call.
EndedWithoutThrow == pc = "done" /\ PassedValidation /\ modelResult.kind # "threw"

\* The claim as written: such a request is never answered with an error.
C13_ReadFailureNeverFailsRequest ==
  /\ ReadFailureIsolated
  /\ (EndedWithoutThrow /\ \E i \in FileIndices : ReadFailed(i)) => Status = 200

\* As amended: the request does not fail because of the read failure unless
\* no part at all was assembled (no prompt and every attachment skipped),
\* and then it is answered 400 "No valid content to process".
C13_ReadFailureIsolated ==
  /\ ReadFailureIsolated
  /\ EndedWithoutThrow
       => IF userParts = <<>>
            THEN /\ Status = 400
                 /\ Response.error = "No valid content to process"
                 /\ ~Truthy(prompt)
                 /\ \A i \in FileIndices : ReadFailed(i)
            ELSE /\ Status = 200
                 /\ Response.filesProcessed = Len(files)

\* Two attachments and no prompt: the first was skipped on a failed read,
\* the second emitted its parts, and the request was answered 200.
C13_Witness ==
  /\ pc = "done" /\ Len(files) = 2 /\ ~Truthy(prompt)
  /\ ReadFailed(1) /\ PartsFrom(1) = <<>> /\ PartsFrom(2) # <<>>
  /\ Status = 200

(***************************************************************************)
(* C14.  When assembly ends with an empty part sequence the request is     *)
(* answered 400 "No valid content to process" and the model is not         *)
(* invoked; that answer is given only after assembly was attempted, and    *)
(* never to a request with a non-empty prompt.                             *)
(***************************************************************************)
AssemblyEnded == PassedValidation /\ pc \in {"invoking", "done"}

NoValidContent == Responded /\ Response.error = "No valid content to process"

C14_EmptyPartsRejected ==
  /\ (AssemblyEnded /\ userParts = <<>>)
       => /\ pc = "done"
          /\ Status = 400
          /\ NoValidContent
          /\ modelCalls = 0
  /\ NoValidContent
       => /\ AssemblyEnded
          /\ idx = Len(files)
          /\ Len(files) > 0
          /\ \A i \in FileIndices : ReadFailed(i)
          /\ ~Truthy(prompt)
          /\ userParts = <<>>
          /\ modelCalls = 0

\* Two attachments, both skipped on a failed read, no prompt: answered 400
\* "No valid content to process" without a model call.
C14_Witness ==
  /\ pc = "done" /\ Len(files) = 2 /\ reads = {1, 2}
  /\ userParts = <<>> /\ NoValidContent /\ Status = 400 /\ modelCalls = 0

(***************************************************************************)
(* C15.  A failed removal of an attachment's storage never changes the     *)
(* outcome of the request: status and body of the response are what they   *)
(* would be had the removal succeeded, and the removal of the request's    *)
(* other attachments is still attempted.                                   *)
(***************************************************************************)
\* The values below are written without the storage and without the set of
\* files whose removal fails: they are the same whichever removals fail.
ReadFails(i) == NeedsRead(i) /\ i \in unreadable

PartsWhateverRemovalDoes(i) ==
  LET m == files[i].mimetype
      sep == IF variant = "esm" THEN "" ELSE "\n                     "
  IN
  IF ReadFails(i) THEN <<>>
  ELSE IF IsImage(m) THEN
    <<fileToGenerativePart(i, m)>>
      \o (IF Truthy(prompt) THEN <<>> ELSE <<TextPart(ImageInstruction, i)>>)
  ELSE IF IsText(m) THEN
    <<TextPart("Content of file \"" \o files[i].originalname \o "\":\n" \o readTextFile(i), i)>>
      \o (IF Truthy(prompt) THEN <<>> ELSE <<TextPart(TextInstruction, i)>>)
  ELSE <<TextPart(DocumentNotice(i, sep), i)>>

RECURSIVE AssembledWhateverRemovalDoes(_)
AssembledWhateverRemovalDoes(n) ==
  IF n = 0
    THEN (IF Truthy(prompt) THEN <<TextPart(prompt.text, 0)>> ELSE <<>>)
    ELSE AssembledWhateverRemovalDoes(n - 1) \o PartsWhateverRemovalDoes(n)

OutcomeWhateverRemovalDoes ==
  IF ~Truthy(prompt) /\ Len(files) = 0
    THEN ErrorBody(400, "Please provide a prompt or upload files")
  ELSE IF ~apiKey
    THEN ErrorBody(500, "Gemini API key not configured")
  ELSE IF AssembledWhateverRemovalDoes(Len(files)) = <<>>
    THEN ErrorBody(400, "No valid content to process")
  ELSE IF modelResult.kind = "returned"
    THEN OkBody(IF variant = "esm" THEN extractText(modelResult.response)
                                   ELSE modelResult.response.textFn, Len(files))
  ELSE IF variant = "esm" THEN EsmClassify(modelResult.message)
  ELSE CjsClassify(modelResult.message)

\* The removals attempted so far on file i.
AttemptsWhateverRemovalDoes(i) ==
  IF variant = "esm"
    THEN (IF Responded \/ pc = "invoking" THEN 1 ELSE 0)
           + (IF modelResult.kind = "threw" THEN 1 ELSE 0)
    ELSE (IF i <= idx /\ ~ReadFails(i) THEN 1 ELSE 0)
           + (IF modelResult.kind = "threw" THEN 1 ELSE 0)

C15_RemovalFailureHarmless ==
  HandlerRan
    => /\ (PassedValidation /\ pc # "handler")
            => userParts = AssembledWhateverRemovalDoes(idx)
       /\ Responded => (Len(responses) = 1 /\ Response = OutcomeWhateverRemovalDoes)
       /\ \A i \in FileIndices : unlinkAttempts[i] = AttemptsWhateverRemovalDoes(i)

\* The removal of the first of two attachments failed (it is still in the
\* storage), the removal of the second was attempted and succeeded, and the
\* request was answered 200.
C15_Witness ==
  /\ pc = "done" /\ Len(files) = 2 /\ Status = 200
  /\ 1 \in locked /\ unlinkAttempts[1] >= 1 /\ 1 \in disk
  /\ unlinkAttempts[2] >= 1 /\ 2 \notin disk

(***************************************************************************)
(* C16.  extractText returns the result of text() when the response has    *)
(* that method; otherwise the concatenation, in order, of the string text  *)
(* fields of the first candidate's parts (the empty string for a part      *)
(* without one) when the parts list exists; otherwise the JSON             *)
(* serialization of the response.  The first applicable branch wins.       *)
(***************************************************************************)
Extracted == variant = "esm" /\ pc = "done" /\ modelResult.kind = "returned"

C16_ExtractTextPriority ==
  Extracted
    => LET r == modelResult.response
           out == Response.output
       IN
       /\ Status = 200
       /\ r.hasTextFn => out = r.textFn
       /\ (~r.hasTextFn /\ r.hasParts)
            => /\ r.parts = <<TextOf("Hel"), NoPart, TextOf("lo")>> => out = "Hello"
               /\ r.parts = <<NoPart>> => out = ""
       /\ (~r.hasTextFn /\ ~r.hasParts) => out = "{" \o r.raw \o "}"
       /\ (r.hasTextFn /\ r.hasParts /\ r.textFn = "T") => out = "T"

\* A response with both a text() method and candidate parts was extracted,
\* and the output is what text() returned.
C16_Witness ==
  /\ Extracted
  /\ modelResult.response.hasTextFn /\ modelResult.response.hasParts
  /\ modelResult.response.parts = <<TextOf("P")>>
  /\ Response.output = "T"

(***************************************************************************)
(* C17.  For two requests processed concurrently, no attachment of one has *)
(* the storage location of an attachment of the other, so the reads and    *)
(* the cleanup of one never touch the stored files of the other.           *)
(***************************************************************************)
InFlight(r) == reqPc[r] # "done" /\ Len(reqPaths[r]) > 0

PathsOf(r) == { reqPaths[r][k] : k \in 1..Len(reqPaths[r]) }

C17_RequestsNeverShareLocation ==
  \A r1, r2 \in Requests :
    (r1 # r2 /\ InFlight(r1) /\ InFlight(r2))
      => /\ PathsOf(r1) \cap PathsOf(r2) = {}
         /\ \A k \in 1..Len(reqReads[r1]) : reqReads[r1][k] = Content(r1, k)

(***************************************************************************)
(* C18.  For each image attachment read successfully exactly one inline    *)
(* binary part with the attachment's media type is emitted; without a      *)
(* prompt the default instruction "Please analyze this image and describe  *)
(* what you see in detail." follows it immediately, and with a non-empty   *)
(* prompt no default instruction part is emitted at all.                   *)
(***************************************************************************)
\* Attachments the loop has gone through.
Processed == IF PassedValidation /\ pc # "handler" THEN 1..idx ELSE {}

ImageRead(i) == i \in Processed /\ IsImage(files[i].mimetype) /\ ~ReadFailed(i)

InlinePositions(i) ==
  { k \in 1..Len(userParts) : userParts[k].kind = "inlineData" /\ userParts[k].src = i }

IsDefaultInstruction(p) ==
  p.kind = "text" /\ p.text \in {ImageInstruction, TextInstruction}

C18_ImageParts ==
  /\ \A i \in FileIndices :
       ImageRead(i)
         => /\ Cardinality(InlinePositions(i)) = 1
            /\ \A k \in InlinePositions(i) :
                 /\ userParts[k].mimeType = files[i].mimetype
                 /\ userParts[k].data = Base64(FileBytes(i))
                 /\ IF Truthy(prompt)
                      THEN PartsFrom(i) = <<userParts[k]>>
                      ELSE /\ k + 1 <= Len(userParts)
                           /\ userParts[k + 1] = TextPart(ImageInstruction, i)
                           /\ PartsFrom(i) = <<userParts[k], userParts[k + 1]>>
  /\ Truthy(prompt)
       => \A k \in 1..Len(userParts) : ~IsDefaultInstruction(userParts[k])

\* Two images and no prompt: each inline part is followed by the default
\* instruction.
C18_Witness ==
  /\ ~Truthy(prompt) /\ Len(files) = 2 /\ ImageRead(1) /\ ImageRead(2)
  /\ Len(userParts) = 4
  /\ userParts[3].kind = "inlineData" /\ userParts[3].mimeType = "image/jpg"
  /\ userParts[4].text = ImageInstruction
  /\ pc = "done" /\ Status = 200

(***************************************************************************)
(* C19.  For each PDF or Word attachment exactly one placeholder text part *)
(* naming the file is emitted, the attachment's bytes are never read, and  *)
(* no default instruction part is added for it, even without a prompt.     *)
(***************************************************************************)
IsPlaceholderFor(p, i) ==
  /\ p.kind = "text"
  /\ p.src = i
  /\ StartsWith(p.text, "I received a "
                  \o (IF files[i].mimetype = "application/pdf" THEN "PDF" ELSE "Word")
                  \o " document named \"" \o files[i].originalname \o "\". ")
  /\ Includes(p.text, "please convert this document to plain text")

C19_DocumentPlaceholder ==
  \A i \in FileIndices :
    IsDocument(files[i].mimetype)
      => /\ i \notin reads
         /\ i \in Processed
              => /\ Len(PartsFrom(i)) = 1
                 /\ IsPlaceholderFor(PartsFrom(i)[1], i)
                 /\ ~IsDefaultInstruction(PartsFrom(i)[1])

\* A PDF and a Word document without a prompt: two placeholders, nothing
\* read, answered 200.
C19_Witness ==
  /\ ~Truthy(prompt) /\ Len(files) = 2 /\ Processed = {1, 2}
  /\ files[1].mimetype = "application/pdf" /\ files[2].mimetype = "application/msword"
  /\ Len(userParts) = 2 /\ reads = {}
  /\ IsPlaceholderFor(userParts[1], 1) /\ IsPlaceholderFor(userParts[2], 2)
  /\ pc = "done" /\ Status = 200

(***************************************************************************)
(* C20.  Without a service credential, a request that has a prompt or      *)
(* attachments is answered 500 "Gemini API key not configured"; no         *)
(* attachment is read, no part is assembled and the model is not invoked.  *)
(***************************************************************************)
CredentialError ==
  Len(responses) = 1 /\ Status = 500 /\ Response.error = "Gemini API key not configured"

NothingProcessed == reads = {} /\ userParts = <<>> /\ idx = 0 /\ modelCalls = 0

\* The claim as written: every such request, once answered, got that answer.
C20_NoCredentialAlways500 ==
  (~apiKey /\ uploadDirExists /\ (Truthy(prompt) \/ Len(uploaded) > 0))
    => /\ NothingProcessed
       /\ Responded => CredentialError

\* As amended: every such request that the upload middleware accepted.
C20_NoCredentialRejected ==
  (~apiKey /\ HandlerRan /\ (Truthy(prompt) \/ Len(files) > 0))
    => /\ NothingProcessed
       /\ pc \in {"handler", "done"}
       /\ pc = "done" => CredentialError

\* No credential, a prompt and two accepted attachments: answered with the
\* configuration error.
C20_Witness ==
  /\ ~apiKey /\ Truthy(prompt) /\ HandlerRan /\ Len(files) = 2
  /\ pc = "done" /\ CredentialError /\ NothingProcessed

(***************************************************************************)
(* C21.  In the ES-module handler the removal of every attachment file is  *)
(* attempted and completed before the model is invoked: whenever the model *)
(* call is in flight or over, none of the request's files exists.          *)
(***************************************************************************)
EsmModelInvoked == variant = "esm" /\ modelCalls >= 1

\* The claim as written: no file of the request exists by then.
C21_NoFileWhileModelRuns ==
  EsmModelInvoked => (disk = {} /\ \A i \in FileIndices : unlinkAttempts[i] >= 1)

\* As amended: every removal was attempted and has settled, and the files
\* that still exist are those whose removal failed.
C21_CleanupBeforeModel ==
  EsmModelInvoked
    => /\ \A i \in FileIndices : unlinkAttempts[i] >= 1
       /\ pending = {}
       /\ disk = locked \cap FileIndices

\* The model call is in flight for a request with two attachments: the
\* removal of the first failed, the second is gone.
C21_Witness ==
  /\ EsmModelInvoked /\ pc = "invoking" /\ Len(files) = 2
  /\ locked = {1} /\ disk = {1}
  /\ unlinkAttempts[1] = 1 /\ unlinkAttempts[2] = 1

(***************************************************************************)
(* C22.  Every request that enters the /chat handler gets exactly one      *)
(* response: on no path is a response sent twice, and on no path does the  *)
(* handler end, or stop, without having sent one.                          *)
(***************************************************************************)
C22_ExactlyOneResponse ==
  /\ Len(responses) <= 1
  /\ HandlerRan
       => IF pc = "done"
            THEN Len(responses) = 1
            ELSE responses = <<>> /\ ENABLED Next

\* A request whose model call failed on quota: one response, 429.
C22_Witness ==
  /\ HandlerRan /\ pc = "done" /\ modelResult.kind = "threw"
  /\ Len(responses) = 1 /\ Status = 429

(***************************************************************************)
(* C23.  On every 200 response filesProcessed is the number of attachments *)
(* uploaded with the request, those skipped on a failed read included; it  *)
(* is not the number of attachments that contributed a part.               *)
(***************************************************************************)
Contributors == { i \in FileIndices : PartsFrom(i) # <<>> }

C23_FilesProcessedCountsUploads ==
  (Responded /\ Status = 200)
    => /\ Response.filesProcessed = Len(uploaded)
       /\ Response.filesProcessed = Len(files)
       /\ Response.filesProcessed
            = Cardinality(Contributors)
                + Cardinality({ i \in FileIndices : ReadFailed(i) })

\* A prompt and two attachments, the second skipped on a failed read:
\* answered 200 with filesProcessed 2 and one contributor.
C23_Witness ==
  /\ Responded /\ Status = 200 /\ Truthy(prompt)
  /\ Len(uploaded) = 2 /\ ReadFailed(2) /\ Contributors = {1}
  /\ Response.filesProcessed = 2

(***************************************************************************)
(* C24.  In the chat client every sendMessage call that passes the guard   *)
(* appends the user message and then exactly one reply message, of type ai *)
(* on a 2xx response and of type error otherwise, and isLoading is false   *)
(* once the call has finished, whether the request succeeded or failed.    *)
(***************************************************************************)
UserPositions(c) == { k \in 1..Len(messages) : messages[k] = UserMessage(c) }

ReplyPositions(c) ==
  { k \in 1..Len(messages) : messages[k].send = c /\ messages[k].type # "user" }

\* One user message per call, one reply after it once the call is over and
\* none before, no message of any other origin, and the loading flag set
\* only while some call is not over.
OneReplyPerSend ==
  /\ \A k \in 1..Len(messages) : messages[k].send \in DOMAIN sends
  /\ \A c \in DOMAIN sends :
       /\ Cardinality(UserPositions(c)) = 1
       /\ Cardinality(ReplyPositions(c)) = (IF sends[c].state = "done" THEN 1 ELSE 0)
       /\ \A u \in UserPositions(c), r \in ReplyPositions(c) : u < r
  /\ isLoading => \E c \in DOMAIN sends : sends[c].state # "done"

ReplyType(c) == messages[CHOOSE k \in ReplyPositions(c) : TRUE].type

Finished(c) == c \in DOMAIN sends /\ sends[c].state = "done"

Outstanding == { c \in DOMAIN sends : sends[c].state # "done" }

C25_AtMostOneOutstanding == Cardinality(Outstanding) <= 1
====
